---- MODULE Spec2Model ----
(***************************************************************************)
(* A model of gitstack (src/gitstack.py): the branch registry, the derived *)
(* children map, the trunk resolver, the stack traversal and the           *)
(* synchronization engine, as they run in one `gst` invocation after       *)
(* another against a git repository and a remote change-request service.   *)
(*                                                                         *)
(* The repository and the remote service are external collaborators: the   *)
(* set of local branches, the checked-out branch and the persisted         *)
(* registry file are state; the answers of the remote service, of the      *)
(* divergence test, of the operator and the success of a rebase or merge   *)
(* are inputs chosen when the code asks for them.                          *)
(***************************************************************************)
EXTENDS Naturals, Sequences, FiniteSets, TLC

VARIABLES
    branches,            \* git: the local branch names (git_list_all_branches)
    head,                \* git: the checked-out branch (git_get_current_branch)
    file,                \* the persisted registry, .gitstack (absent = empty)
    pc,                  \* where the process is: idle, ready, traverse, wrapup, done, aborted
    op,                  \* the operation operate() dispatched to
    gitstack,            \* self.gitstack: branch -> parent
    gitstack_children,   \* self.gitstack_children: parent -> set of children
    stack_changed,       \* self.stack_changed: the dirty flag
    trunk,               \* self.trunk
    original_branch,     \* self.original_branch
    visited,             \* _traverse_stack: visited
    tracking_stack,      \* _traverse_stack: tracking_stack, the top is the last element
    loaded,              \* the mapping read_gitstack_file returned at process start
    writes,              \* calls of write_gitstack_file in this invocation
    calls,               \* calls of the visitor fn per branch in this traversal
    issued,              \* rebase / merge commands issued in this invocation
    last,                \* inputs and outcome of the handler that ran last
    noted,               \* what the sync pass has found so far
    invocations,         \* invocations started so far
    picked,              \* switch_to_child: the children as listed and the number typed
    log,                 \* create_prs: the pushes and request creations, in order
    requests             \* create_prs: the branches that have a request at the remote service

vars == <<branches, head, file, pc, op, gitstack, gitstack_children, stack_changed,
          trunk, original_branch, visited, tracking_stack, loaded, writes, calls,
          issued, last, noted, invocations, picked, log, requests>>

(***************************************************************************)
(* Bounds and constants                                                    *)
(***************************************************************************)
\* Number of invocations of the program in one behaviour.
MaxInvocations == 3

TRUNK_CANDIDATES == <<"main", "master">>

\* Branch names other than the trunk candidates.
FeatureNames == {"a", "b"}

Names == {TRUNK_CANDIDATES[i] : i \in 1..Len(TRUNK_CANDIDATES)} \cup FeatureNames

\* No branch: the value of a name that is not set.
NoBranch == ""

\* What the operator can type at a prompt.
Responses == {"", "y", "Y", "n", "N"}

\* What `gh pr status --json state,isDraft --jq .currentBranch` can answer:
\* nothing (no request), or a request's state and draft mark.
NoPR == [state |-> "NONE", isDraft |-> FALSE]

PRStates == {NoPR} \cup [state : {"OPEN", "MERGED", "CLOSED"}, isDraft : BOOLEAN]

\* An answer whose state is none of them.
UnknownPRStates == [state : {"UNKNOWN"}, isDraft : BOOLEAN]

(***************************************************************************)
(* Mappings: a Python dict is a function on its set of keys.               *)
(***************************************************************************)
EmptyMap == << >>

Mappings == UNION {[d -> Names] : d \in SUBSET Names}

Pop(m, k) == [x \in DOMAIN m \ {k} |-> m[x]]

Get(m, k, default) == IF k \in DOMAIN m THEN m[k] ELSE default

\* __init__: the children map built from the registry.
BuildChildren(g) == [p \in {g[b] : b \in DOMAIN g} |-> {b \in DOMAIN g : g[b] = p}]

\* The first trunk candidate that is a local branch, NoBranch if none is.
RECURSIVE TrunkFrom(_, _)
TrunkFrom(all_branches, i) ==
    IF i > Len(TRUNK_CANDIDATES) THEN NoBranch
    ELSE IF TRUNK_CANDIDATES[i] \in all_branches THEN TRUNK_CANDIDATES[i]
    ELSE TrunkFrom(all_branches, i + 1)

_get_trunk(all_branches) == TrunkFrom(all_branches, 1)

\* _track_branches as it would be without line 490: the dirty flag is not set.
TrackBranchesNotDirty(g, c, bs, parent) ==
    [gitstack |-> [x \in DOMAIN g \cup bs |-> IF x \in bs THEN parent ELSE g[x]],
     gitstack_children |->
        [p \in DOMAIN c \cup {parent} |->
            IF p = parent THEN Get(c, parent, {}) \cup bs ELSE c[p]],
     stack_changed |-> stack_changed]

\* _track_branches: point every branch of bs at parent, in both maps, and set
\* the dirty flag.
_track_branches(g, c, bs, parent) ==
    [gitstack |-> [x \in DOMAIN g \cup bs |-> IF x \in bs THEN parent ELSE g[x]],
     gitstack_children |->
        [p \in DOMAIN c \cup {parent} |->
            IF p = parent THEN Get(c, parent, {}) \cup bs ELSE c[p]],
     stack_changed |-> TRUE]

_track_branch(g, c, branch, parent) == _track_branches(g, c, {branch}, parent)

\* _untrack_branch as it would be without line 499: the popped children keep
\* the branch as their parent.
UntrackWithoutGraft(g, c, branch) ==
    LET parent == g[branch]
        c1 == Pop(c, branch)
        c2 == [p \in DOMAIN c1 |-> c1[p] \ {branch}]
    IN  _track_branches(Pop(g, branch), c2, {}, parent)

\* _untrack_branch: pop the branch and its children set, remove the branch from
\* the children sets left in the map, then track the popped children under the
\* popped parent.  The popped children set is not among the sets the loop cleans.
_untrack_branch(g, c, branch) ==
    LET parent == g[branch]
        children == Get(c, branch, {})
        c1 == Pop(c, branch)
        c2 == [p \in DOMAIN c1 |-> c1[p] \ {branch}]
    IN  _track_branches(Pop(g, branch), c2, children, parent)

(***************************************************************************)
(* The record of the handler that ran last.                                *)
(***************************************************************************)
Seen(fn, branch, parent, kind, pr, response, prompted, cmd) ==
    [fn |-> fn, branch |-> branch, parent |-> parent, kind |-> kind, pr |-> pr,
     response |-> response, prompted |-> prompted, cmd |-> cmd]

NoLast == Seen("none", NoBranch, NoBranch, "none", NoPR, "", FALSE, "none")

NoCalls == [b \in Names |-> 0]

\* Nothing listed, nothing typed.
NoPick == [listed |-> << >>, index |-> 0]

(***************************************************************************)
(* Initial states                                                          *)
(***************************************************************************)
\* A repository: some local branches, one of them checked out.
InitRepo ==
    /\ branches \in SUBSET Names
    /\ head \in branches

InitProcess ==
    /\ pc = "idle"
    /\ op = "none"
    /\ gitstack = EmptyMap
    /\ gitstack_children = EmptyMap
    /\ stack_changed = FALSE
    /\ trunk = NoBranch
    /\ original_branch = NoBranch
    /\ visited = {}
    /\ tracking_stack = << >>
    /\ loaded = EmptyMap
    /\ writes = 0
    /\ calls = NoCalls
    /\ issued = {}
    /\ last = NoLast
    /\ noted = {}
    /\ invocations = 0
    /\ picked = NoPick
    /\ log = << >>
    /\ requests = {}

\* No registry file yet.
Init ==
    /\ InitRepo
    /\ file = EmptyMap
    /\ InitProcess

(***************************************************************************)
(* The process: construction, one operation, wrap-up                       *)
(***************************************************************************)
\* GitStack.__init__.  _get_trunk raises NoValidTrunkError when no candidate
\* is a local branch.
Construct ==
    /\ pc = "idle"
    /\ invocations < MaxInvocations
    /\ invocations' = invocations + 1
    /\ loaded' = file
    /\ gitstack' = file
    /\ stack_changed' = FALSE
    /\ IF _get_trunk(branches) = NoBranch
       THEN /\ pc' = "aborted"
            /\ UNCHANGED <<gitstack_children, trunk, original_branch>>
       ELSE /\ pc' = "ready"
            /\ trunk' = _get_trunk(branches)
            /\ original_branch' = head
            /\ gitstack_children' = BuildChildren(file)
    /\ UNCHANGED <<branches, head, file, op, visited, tracking_stack, writes, calls,
                   issued, last, noted>>
    /\ UNCHANGED <<picked, log, requests>>

\* create_branch(branch, parent): `git checkout -b branch parent` fails when the
\* branch exists or the start point does not.  The parent operate() passes is
\* the trunk, the original branch or the name given; start points that are no
\* branch names (a tag, a commit, the empty string) are left out.
CreateBranch(branch, parent) ==
    /\ pc = "ready"
    /\ op' = "branch"
    /\ IF branch \in branches \/ parent \notin branches
       THEN /\ pc' = "aborted"
            /\ last' = Seen("create_branch", branch, parent, "error", NoPR, "", FALSE, "none")
            /\ UNCHANGED <<branches, head, gitstack, gitstack_children, stack_changed>>
       ELSE LET t == _track_branch(gitstack, gitstack_children, branch, parent)
            IN  /\ pc' = "wrapup"
                /\ branches' = branches \cup {branch}
                /\ head' = branch
                /\ gitstack' = t.gitstack
                /\ gitstack_children' = t.gitstack_children
                /\ stack_changed' = t.stack_changed
                /\ last' = Seen("create_branch", branch, parent, "tracked", NoPR, "", FALSE, "none")
    /\ UNCHANGED <<file, trunk, original_branch, visited, tracking_stack, loaded, writes,
                   calls, issued, noted, invocations>>
    /\ UNCHANGED <<picked, log, requests>>

\* track_current_branch as it would be without lines 261-265: a branch that
\* already has this parent is treated like one that has another.
TrackDecisionNoAlready(parent, response) ==
    LET branch == original_branch
    IN  IF parent \notin branches
        THEN Seen("track", branch, parent, "no_parent", NoPR, "", FALSE, "none")
        ELSE IF branch = parent
        THEN Seen("track", branch, parent, "self", NoPR, "", FALSE, "none")
        ELSE IF branch = trunk
        THEN Seen("track", branch, parent, "trunk", NoPR, "", FALSE, "none")
        ELSE IF branch \in DOMAIN gitstack
        THEN IF response \notin {"y", "Y"}
             THEN Seen("track", branch, parent, "declined", NoPR, response, TRUE, "none")
             ELSE Seen("track", branch, parent, "tracked", NoPR, response, TRUE, "none")
        ELSE Seen("track", branch, parent, "tracked", NoPR, "", FALSE, "none")

\* track_current_branch(parent), with the operator's answer should it be asked.
\* Returns the handler's record; kind tells which return was taken.
TrackDecision(parent, response) ==
    LET branch == original_branch
    IN  IF parent \notin branches
        THEN Seen("track", branch, parent, "no_parent", NoPR, "", FALSE, "none")
        ELSE IF branch = parent
        THEN Seen("track", branch, parent, "self", NoPR, "", FALSE, "none")
        ELSE IF branch = trunk
        THEN Seen("track", branch, parent, "trunk", NoPR, "", FALSE, "none")
        ELSE IF branch \in DOMAIN gitstack /\ parent = gitstack[branch]
        THEN Seen("track", branch, parent, "already", NoPR, "", FALSE, "none")
        ELSE IF branch \in DOMAIN gitstack
        THEN IF response \notin {"y", "Y"}
             THEN Seen("track", branch, parent, "declined", NoPR, response, TRUE, "none")
             ELSE Seen("track", branch, parent, "tracked", NoPR, response, TRUE, "none")
        ELSE Seen("track", branch, parent, "tracked", NoPR, "", FALSE, "none")

TrackCurrentBranch(parent, response) ==
    /\ pc = "ready"
    /\ op' = "track"
    /\ pc' = "wrapup"
    /\ LET d == TrackDecision(parent, response)
           t == _track_branch(gitstack, gitstack_children, d.branch, parent)
       IN  /\ last' = d
           /\ IF d.kind = "tracked"
              THEN /\ gitstack' = t.gitstack
                   /\ gitstack_children' = t.gitstack_children
                   /\ stack_changed' = t.stack_changed
              ELSE UNCHANGED <<gitstack, gitstack_children, stack_changed>>
    /\ UNCHANGED <<branches, head, file, trunk, original_branch, visited, tracking_stack,
                   loaded, writes, calls, issued, noted, invocations>>
    /\ UNCHANGED <<picked, log, requests>>

(***************************************************************************)
(* The traversal and its two visitors                                      *)
(***************************************************************************)
\* The orders in which a Python set can be iterated.
Orders(S) == {s \in [1..Cardinality(S) -> S] : \A x \in S : \E i \in DOMAIN s : s[i] = x}

\* The outcome of one call of a visitor.
Outcome(g, c, sc, br, hd, raised, seen) ==
    [gitstack |-> g, gitstack_children |-> c, stack_changed |-> sc, branches |-> br,
     head |-> hd, raised |-> raised, seen |-> seen]

\* The integration as it would be if line 424 did not look at isDraft.
IntegrationCommandNoDraft(pr_state, response) ==
    IF pr_state = NoPR
    THEN IF response \in {"n", "N"} THEN "rebase_i" ELSE "rebase"
    ELSE "merge"

\* The integration chosen for a diverged branch: a rebase (interactive when the
\* operator answers n or N) when there is no request or it is a draft, else a
\* merge of the parent into the branch.
IntegrationCommand(pr_state, response) ==
    IF pr_state = NoPR \/ pr_state.isDraft
    THEN IF response \in {"n", "N"} THEN "rebase_i" ELSE "rebase"
    ELSE "merge"

\* The answer as it would be read if the empty input did not mean yes.
ShouldRemoveExplicit(response) == response \in {"Y", "y"}

\* The operator's answer to "delete local branch? (Y/n)".
ShouldRemove(response) == response \in {"", "Y", "y"}

\* _delete_branch, then _untrack_branch; only _untrack_branch for a branch that
\* is gone.  dict.pop raises KeyError for a branch that is no key of the registry.
Retire(branch, br, hd, kind, pr, response, prompted) ==
    IF branch \notin DOMAIN gitstack
    THEN Outcome(gitstack, gitstack_children, stack_changed, br, hd, TRUE,
                 Seen("check", branch, NoBranch, "error", pr, response, prompted, "none"))
    ELSE LET u == _untrack_branch(gitstack, gitstack_children, branch)
         IN  Outcome(u.gitstack, u.gitstack_children, u.stack_changed, br, hd, FALSE,
                     Seen("check", branch, gitstack[branch], kind, pr, response, prompted, "none"))

\* _check_and_rebase(branch).  pr_state is the remote service's answer, diverged
\* tells whether the parent's tip differs from the merge-base, response is what
\* the operator types if asked, fails tells whether the rebase or merge fails.
_check_and_rebase(branch, pr_state, diverged, response, fails) ==
    IF branch = trunk
    THEN Outcome(gitstack, gitstack_children, stack_changed, branches, head, FALSE,
                 Seen("check", branch, NoBranch, "trunk", NoPR, "", FALSE, "none"))
    ELSE IF branch \notin branches
    THEN Retire(branch, branches, head, "gone", NoPR, "", FALSE)
    ELSE IF pr_state.state \in {"MERGED", "CLOSED"}
    THEN IF ShouldRemove(response)
         THEN Retire(branch, branches \ {branch}, trunk, "removed", pr_state, response, TRUE)
         ELSE Outcome(gitstack, gitstack_children, stack_changed, branches, branch, FALSE,
                      Seen("check", branch, Get(gitstack, branch, NoBranch), "kept",
                           pr_state, response, TRUE, "none"))
    ELSE IF branch \notin DOMAIN gitstack \/ gitstack[branch] \notin branches
    THEN \* KeyError, or show-ref / merge-base failing on a parent that is no branch
         Outcome(gitstack, gitstack_children, stack_changed, branches, branch, TRUE,
                 Seen("check", branch, Get(gitstack, branch, NoBranch), "error",
                      pr_state, "", FALSE, "none"))
    ELSE IF ~diverged
    THEN Outcome(gitstack, gitstack_children, stack_changed, branches, branch, FALSE,
                 Seen("check", branch, gitstack[branch], "uptodate", pr_state, "", FALSE, "none"))
    ELSE LET cmd == IntegrationCommand(pr_state, response)
             asked == cmd # "merge"
         IN  Outcome(gitstack, gitstack_children, stack_changed, branches, branch, fails,
                     Seen("check", branch, gitstack[branch], "diverged", pr_state,
                          IF asked THEN response ELSE "", asked, cmd))

\* print_stack's visitor: print_branch_level for a local branch, nothing for
\* another.  `git log parent..branch` fails when the parent is no branch.
PrintVisit(branch) ==
    LET parent == Get(gitstack, branch, NoBranch)
        bad == branch \in branches /\ branch \in DOMAIN gitstack /\ parent \notin branches
    IN  Outcome(gitstack, gitstack_children, stack_changed, branches, head, bad,
                Seen("print", branch, parent, IF bad THEN "error" ELSE "printed",
                     NoPR, "", FALSE, "none"))

\* What a sync pass notes of a visit: everything but the trunk and a branch
\* that is up to date.
Notable(kind) == IF kind \in {"trunk", "uptodate", "printed"} THEN {} ELSE {kind}

\* sync and print_stack start _traverse_stack at the trunk.
StartTraverse(operation) ==
    /\ pc = "ready"
    /\ op' = operation
    /\ pc' = "traverse"
    /\ visited' = {}
    /\ tracking_stack' = << <<trunk, 0>> >>
    /\ UNCHANGED <<branches, head, file, gitstack, gitstack_children, stack_changed, trunk,
                   original_branch, loaded, writes, calls, issued, last, noted, invocations>>
    /\ UNCHANGED <<picked, log, requests>>

Sync == StartTraverse("sync")

PrintStack == StartTraverse("print")

\* The children pushed as they would be if line 351 read the trunk's children.
ChildrenOfTrunk(c, branch, seen) == Get(c, trunk, {}) \ seen

\* Lines 351-354: the children of the branch that are not visited.
ChildrenToPush(c, branch, seen) == Get(c, branch, {}) \ seen

\* The depth as it would be if line 354 pushed the children at depth.
ChildDepthSame(depth) == depth

\* Line 354: the children are pushed one level below the branch.
ChildDepth(depth) == depth + 1

\* One iteration of the loop of _traverse_stack with the visitor's outcome o:
\* the branch is marked visited and its children, as the map now has them,
\* are pushed in some order, the visited ones left out.
Visit(branch, depth, rest, o) ==
    /\ calls' = [calls EXCEPT ![branch] = @ + 1]
    /\ gitstack' = o.gitstack
    /\ gitstack_children' = o.gitstack_children
    /\ stack_changed' = o.stack_changed
    /\ branches' = o.branches
    /\ head' = o.head
    /\ last' = o.seen
    /\ noted' = noted \cup Notable(o.seen.kind)
    /\ issued' = IF o.seen.cmd = "none" THEN issued
                 ELSE issued \cup {<<o.seen.cmd, branch>>}
    /\ IF o.raised
       THEN /\ pc' = "aborted"
            /\ tracking_stack' = rest
            /\ UNCHANGED visited
       ELSE /\ pc' = "traverse"
            /\ visited' = visited \cup {branch}
            /\ \E order \in Orders(ChildrenToPush(o.gitstack_children, branch,
                                                     visited \cup {branch})) :
                  tracking_stack' = rest \o [i \in DOMAIN order |-> <<order[i], ChildDepth(depth)>>]

\* One iteration of the loop of _traverse_stack, the remote service answering
\* the sync visitor with one of the given states.
TraverseOver(states) ==
    /\ pc = "traverse"
    /\ tracking_stack # << >>
    /\ LET top == tracking_stack[Len(tracking_stack)]
           branch == top[1]
           depth == top[2]
           rest == SubSeq(tracking_stack, 1, Len(tracking_stack) - 1)
       IN  IF branch \in visited
           THEN /\ tracking_stack' = rest
                /\ UNCHANGED <<branches, head, pc, gitstack, gitstack_children,
                               stack_changed, visited, calls, issued, last, noted>>
           ELSE IF op = "sync"
           THEN \E pr_state \in states, diverged \in BOOLEAN,
                   response \in Responses, fails \in BOOLEAN :
                    Visit(branch, depth, rest,
                          _check_and_rebase(branch, pr_state, diverged, response, fails))
           ELSE Visit(branch, depth, rest, PrintVisit(branch))
    /\ UNCHANGED <<file, op, trunk, original_branch, loaded, writes, invocations>>
    /\ UNCHANGED <<picked, log, requests>>

\* The loop with the states the remote service has.
TraverseStep == TraverseOver(PRStates)

\* The loop with a remote service that can also answer a state the program
\* does not know.
TraverseStepAnyState == TraverseOver(PRStates \cup UnknownPRStates)

\* The end of the traversal as it would be without lines 332-338: the branch
\* the last visit checked out stays checked out.
FinishTraverseNoSwitch ==
    /\ pc = "traverse"
    /\ tracking_stack = << >>
    /\ pc' = "wrapup"
    /\ UNCHANGED <<branches, head, file, op, gitstack, gitstack_children, stack_changed,
                   trunk, original_branch, visited, tracking_stack, loaded, writes, calls,
                   issued, last, noted, invocations, picked, log, requests>>

\* The traversal is over.  sync switches back to the original branch if it is
\* still a branch.
FinishTraverse ==
    /\ pc = "traverse"
    /\ tracking_stack = << >>
    /\ pc' = "wrapup"
    /\ head' = IF op = "sync" /\ original_branch \in branches THEN original_branch ELSE head
    /\ UNCHANGED <<branches, file, op, gitstack, gitstack_children, stack_changed, trunk,
                   original_branch, visited, tracking_stack, loaded, writes, calls, issued,
                   last, noted, invocations>>
    /\ UNCHANGED <<picked, log, requests>>

\* wrapup as it would be if it wrote whatever the dirty flag says.
WrapupAlways ==
    /\ pc = "wrapup"
    /\ pc' = "done"
    /\ file' = gitstack
    /\ writes' = writes + 1
    /\ UNCHANGED <<branches, head, op, gitstack, gitstack_children, stack_changed, trunk,
                   original_branch, visited, tracking_stack, loaded, calls, issued, last,
                   noted, invocations>>
    /\ UNCHANGED <<picked, log, requests>>

\* wrapup as it would be if __main__ called it in a finally clause: it also
\* runs after an exception.
WrapupFinally ==
    /\ pc \in {"wrapup", "aborted"}
    /\ pc' = "done"
    /\ IF stack_changed
       THEN file' = gitstack /\ writes' = writes + 1
       ELSE UNCHANGED <<file, writes>>
    /\ UNCHANGED <<branches, head, op, gitstack, gitstack_children, stack_changed, trunk,
                   original_branch, visited, tracking_stack, loaded, calls, issued, last,
                   noted, invocations, picked, log, requests>>

\* wrapup: write the registry when the dirty flag is set.
Wrapup ==
    /\ pc = "wrapup"
    /\ pc' = "done"
    /\ IF stack_changed
       THEN file' = gitstack /\ writes' = writes + 1
       ELSE UNCHANGED <<file, writes>>
    /\ UNCHANGED <<branches, head, op, gitstack, gitstack_children, stack_changed, trunk,
                   original_branch, visited, tracking_stack, loaded, calls, issued, last,
                   noted, invocations>>
    /\ UNCHANGED <<picked, log, requests>>

\* The process ends, normally or by an uncaught exception: its memory is gone.
Exit ==
    /\ pc \in {"done", "aborted"}
    /\ pc' = "idle"
    /\ op' = "none"
    /\ gitstack' = EmptyMap
    /\ gitstack_children' = EmptyMap
    /\ stack_changed' = FALSE
    /\ trunk' = NoBranch
    /\ original_branch' = NoBranch
    /\ visited' = {}
    /\ tracking_stack' = << >>
    /\ loaded' = EmptyMap
    /\ writes' = 0
    /\ calls' = NoCalls
    /\ issued' = {}
    /\ last' = NoLast
    /\ noted' = {}
    /\ picked' = NoPick
    /\ log' = << >>
    /\ requests' = {}
    /\ UNCHANGED <<branches, head, file, invocations>>

(***************************************************************************)
(* The repository between two invocations                                  *)
(***************************************************************************)
\* git switch
EnvSwitch(branch) ==
    /\ pc = "idle"
    /\ branch \in branches
    /\ branch # head
    /\ head' = branch
    /\ UNCHANGED <<branches, file, pc, op, gitstack, gitstack_children, stack_changed, trunk,
                   original_branch, visited, tracking_stack, loaded, writes, calls, issued,
                   last, noted, invocations>>
    /\ UNCHANGED <<picked, log, requests>>

\* git branch <name>
EnvCreate(branch) ==
    /\ pc = "idle"
    /\ branch \notin branches
    /\ branches' = branches \cup {branch}
    /\ UNCHANGED <<head, file, pc, op, gitstack, gitstack_children, stack_changed, trunk,
                   original_branch, visited, tracking_stack, loaded, writes, calls, issued,
                   last, noted, invocations>>
    /\ UNCHANGED <<picked, log, requests>>

\* git branch -D <name>: any branch but the checked-out one
EnvDelete(branch) ==
    /\ pc = "idle"
    /\ branch \in branches
    /\ branch # head
    /\ branches' = branches \ {branch}
    /\ UNCHANGED <<head, file, pc, op, gitstack, gitstack_children, stack_changed, trunk,
                   original_branch, visited, tracking_stack, loaded, writes, calls, issued,
                   last, noted, invocations>>
    /\ UNCHANGED <<picked, log, requests>>

Next ==
    \/ Construct
    \/ \E branch \in Names, parent \in Names : CreateBranch(branch, parent)
    \/ \E parent \in Names, response \in Responses : TrackCurrentBranch(parent, response)
    \/ Sync
    \/ PrintStack
    \/ TraverseStep
    \/ FinishTraverse
    \/ Wrapup
    \/ Exit
    \/ \E branch \in Names : EnvSwitch(branch)
    \/ \E branch \in Names : EnvCreate(branch)
    \/ \E branch \in Names : EnvDelete(branch)

Spec == Init /\ [][Next]_vars

(***************************************************************************)
(* A process constructed over any registry file                            *)
(***************************************************************************)
\* The state after GitStack.__init__ has read a registry file that holds any
\* mapping, in a repository that has a trunk.
InitAny ==
    /\ InitRepo
    /\ _get_trunk(branches) # NoBranch
    /\ file \in Mappings
    /\ pc = "ready"
    /\ op = "none"
    /\ gitstack = file
    /\ gitstack_children = BuildChildren(file)
    /\ stack_changed = FALSE
    /\ trunk = _get_trunk(branches)
    /\ original_branch = head
    /\ visited = {}
    /\ tracking_stack = << >>
    /\ loaded = file
    /\ writes = 0
    /\ calls = NoCalls
    /\ issued = {}
    /\ last = NoLast
    /\ noted = {}
    /\ invocations = 1
    /\ picked = NoPick
    /\ log = << >>
    /\ requests = {}

\* _untrack_branch(branch) called on a tracked branch.
UntrackBranch(branch) ==
    /\ pc = "ready"
    /\ branch \in DOMAIN gitstack
    /\ LET u == _untrack_branch(gitstack, gitstack_children, branch)
       IN  /\ gitstack' = u.gitstack
           /\ gitstack_children' = u.gitstack_children
           /\ stack_changed' = u.stack_changed
    /\ op' = "untrack"
    /\ pc' = "wrapup"
    /\ last' = Seen("untrack", branch, gitstack[branch], "untracked", NoPR, "", FALSE, "none")
    /\ UNCHANGED <<branches, head, file, trunk, original_branch, visited, tracking_stack,
                   loaded, writes, calls, issued, noted, invocations>>
    /\ UNCHANGED <<picked, log, requests>>

NextUntrack ==
    \/ \E branch \in Names : UntrackBranch(branch)
    \/ Wrapup

\* _untrack_branch applied once to any tracked branch of any registry.
SpecUntrack == InitAny /\ [][NextUntrack]_vars

NextTraverse ==
    \/ PrintStack
    \/ TraverseStep
    \/ FinishTraverse
    \/ Wrapup

\* print_stack over any registry; the loop of _traverse_stack keeps running.
SpecTraverse ==
    /\ InitAny
    /\ [][NextTraverse]_vars
    /\ WF_vars(TraverseStep)
    /\ WF_vars(FinishTraverse)

NextAnyState ==
    \/ Sync
    \/ TraverseStepAnyState
    \/ FinishTraverse
    \/ Wrapup

\* The registry tracks feature branches only and every name is a local branch.
InitFeatures ==
    /\ InitAny
    /\ branches = Names
    /\ DOMAIN file \subseteq FeatureNames

\* sync over such a registry, with a remote service that can answer an
\* unknown state.
SpecAnyState == InitFeatures /\ [][NextAnyState]_vars

(***************************************************************************)
(* operate(): the dispatch on the operation token                          *)
(***************************************************************************)
\* The tokens operate() compares the operation with.
Operations == {"b", "branch", "p", "print", "d", "down", "u", "up", "t", "track", "pr",
               "s", "sync"}

\* A token that is none of them.
Tokens == Operations \cup {"x"}

\* Largest number of arguments given on the command line.
MaxArgs == 3

\* The numbers of arguments the assert of the operation's branch accepts.
Arities(operation) ==
    IF operation \in {"b", "branch"} THEN {1, 2}
    ELSE IF operation \in {"t", "track"} THEN {1}
    ELSE {0}

\* operate() with an operation it knows and a number of arguments the assert
\* of its branch rejects: AssertionError before the handler is called.
UsageError(operation, nargs) ==
    /\ pc = "ready"
    /\ operation \in Operations
    /\ nargs \notin Arities(operation)
    /\ op' = operation
    /\ pc' = "aborted"
    /\ last' = Seen("operate", NoBranch, NoBranch, "assert", NoPR, "", FALSE, "none")
    /\ UNCHANGED <<branches, head, file, gitstack, gitstack_children, stack_changed, trunk,
                   original_branch, visited, tracking_stack, loaded, writes, calls, issued,
                   noted, invocations>>
    /\ UNCHANGED <<picked, log, requests>>

\* operate() with a token none of its branches names: the if/elif chain has
\* no else, so operate returns and __main__ goes on to wrapup.
UnknownOperation(operation, nargs) ==
    /\ pc = "ready"
    /\ operation \notin Operations
    /\ op' = operation
    /\ pc' = "wrapup"
    /\ last' = Seen("operate", NoBranch, NoBranch, "ignored", NoPR, "", FALSE, "none")
    /\ UNCHANGED <<branches, head, file, gitstack, gitstack_children, stack_changed, trunk,
                   original_branch, visited, tracking_stack, loaded, writes, calls, issued,
                   noted, invocations>>
    /\ UNCHANGED <<picked, log, requests>>

NextOperate ==
    \/ \E operation \in Tokens, nargs \in 0..MaxArgs : UsageError(operation, nargs)
    \/ \E operation \in Tokens, nargs \in 0..MaxArgs : UnknownOperation(operation, nargs)
    \/ Wrapup

\* One command line that names no handler call, over a registry of feature
\* branches.
SpecOperate == InitFeatures /\ [][NextOperate]_vars

(***************************************************************************)
(* Moving along the stack                                                  *)
(***************************************************************************)
\* switch_to_parent() with current_branch checked out: the branch it returns,
\* which is then the checked-out one, and whether `git switch` failed.
switch_to_parent(current_branch) ==
    IF current_branch = trunk
    THEN [branch |-> current_branch, kind |-> "on_trunk", raised |-> FALSE]
    ELSE IF current_branch \notin DOMAIN gitstack
    THEN [branch |-> current_branch, kind |-> "untracked", raised |-> FALSE]
    ELSE IF gitstack[current_branch] \notin branches
    THEN [branch |-> current_branch, kind |-> "error", raised |-> TRUE]
    ELSE [branch |-> gitstack[current_branch], kind |-> "switched", raised |-> FALSE]

SwitchToParent ==
    /\ pc = "ready"
    /\ op' = "down"
    /\ LET r == switch_to_parent(head)
       IN  /\ head' = r.branch
           /\ pc' = IF r.raised THEN "aborted" ELSE "wrapup"
           /\ last' = Seen("switch_to_parent", head, Get(gitstack, head, NoBranch), r.kind,
                           NoPR, "", FALSE, "none")
    /\ UNCHANGED <<branches, file, gitstack, gitstack_children, stack_changed, trunk,
                   original_branch, visited, tracking_stack, loaded, writes, calls, issued,
                   noted, invocations, picked, log, requests>>

\* Largest absolute value of the number the operator types.
MaxIndex == 3

\* The numbers the operator can type at "Select by number: ".
Indices == 0..MaxIndex \cup {0 - i : i \in 1..MaxIndex}

\* list[index] of Python, the list given as a sequence: counted from the end
\* for a negative index, NoBranch for the IndexError of an index beyond either
\* end.
PyIndex(list, index) ==
    IF index \in 0..(Len(list) - 1) THEN list[index + 1]
    ELSE IF index < 0 /\ index + Len(list) >= 0 THEN list[Len(list) + index + 1]
    ELSE NoBranch

\* switch_to_child(): order is the order in which the set of children is
\* listed, index the number typed when there is more than one.
SwitchToChild(order, index) ==
    /\ pc = "ready"
    /\ op' = "up"
    /\ LET current_branch == head
           child_branches == Get(gitstack_children, current_branch, {})
           child_branch == IF Cardinality(child_branches) = 1
                           THEN order[1]
                           ELSE PyIndex(order, index)
           stay(kind, raised, asked) ==
               /\ head' = head
               /\ pc' = IF raised THEN "aborted" ELSE "wrapup"
               /\ picked' = IF asked THEN [listed |-> order, index |-> index] ELSE NoPick
               /\ last' = Seen("switch_to_child", current_branch, NoBranch, kind, NoPR, "",
                               asked, "none")
       IN  IF current_branch # trunk /\ current_branch \notin DOMAIN gitstack
           THEN index = 0 /\ stay("untracked", FALSE, FALSE)
           ELSE IF child_branches = {}
           THEN index = 0 /\ stay("no_children", FALSE, FALSE)
           ELSE /\ order \in Orders(child_branches)
                /\ Cardinality(child_branches) = 1 => index = 0
                /\ IF child_branch = NoBranch
                   THEN stay("index_error", TRUE, TRUE)
                   ELSE IF child_branch \notin branches
                   THEN stay("error", TRUE, Cardinality(child_branches) > 1)
                   ELSE /\ head' = child_branch
                        /\ pc' = "wrapup"
                        /\ picked' = IF Cardinality(child_branches) > 1
                                      THEN [listed |-> order, index |-> index]
                                      ELSE NoPick
                        /\ last' = Seen("switch_to_child", current_branch, child_branch,
                                        "switched", NoPR, "",
                                        Cardinality(child_branches) > 1, "none")
    /\ UNCHANGED <<branches, file, gitstack, gitstack_children, stack_changed, trunk,
                   original_branch, visited, tracking_stack, loaded, writes, calls, issued,
                   noted, invocations, log, requests>>

NextSwitch ==
    \/ SwitchToParent
    \/ \E order \in Orders(Get(gitstack_children, head, {})), index \in Indices :
          SwitchToChild(order, index)
    \/ Wrapup

\* One step down or up the stack, over any registry.
SpecSwitch == InitAny /\ [][NextSwitch]_vars

(***************************************************************************)
(* create_prs                                                              *)
(***************************************************************************)
\* Number of commands the log holds.
MaxLog == 6

\* The log with one more command; a full log is started afresh.
Logged(l, entry) == IF Len(l) < MaxLog THEN Append(l, entry) ELSE <<entry>>

Pushed(branch, has_pr) ==
    [cmd |-> "push", branch |-> branch, base |-> NoBranch, had_pr |-> has_pr]

Created(branch, base) ==
    [cmd |-> "create", branch |-> branch, base |-> base, had_pr |-> FALSE]

\* Which command of one iteration fails, if any.
Failures == {"none", "push", "create"}

\* The base as it would be if line 208 took the trunk.
RequestBaseTrunk(branch) == trunk

\* Line 208: the base of a new request is the tracked parent of the branch.
RequestBase(branch) == gitstack[branch]

\* create_prs is entered, the remote service having requests for the branches
\* rs.  The loop variable starts as original_branch, the branch __init__
\* found checked out, and is afterwards what switch_to_parent returns, the
\* branch that call left checked out: it is head throughout.
CreatePrs(rs) ==
    /\ pc = "ready"
    /\ op' = "pr"
    /\ pc' = "prs"
    /\ requests' = rs
    /\ last' = Seen("create_prs", head, NoBranch, "started", NoPR, "", FALSE, "none")
    /\ UNCHANGED <<branches, head, file, gitstack, gitstack_children, stack_changed, trunk,
                   original_branch, visited, tracking_stack, loaded, writes, calls, issued,
                   noted, invocations, picked, log>>

\* One iteration of the loop.  `gh pr status` tells whether the checked-out
\* branch has a request.  A branch with a request is pushed; for one without,
\* the parent is looked up (KeyError for an untracked branch), the branch is
\* pushed and a draft request is created on the parent.  Then
\* switch_to_parent.
CreatePrsStep(fails) ==
    /\ pc = "prs"
    /\ head # trunk
    /\ LET branch == head
           has_pr == branch \in requests
           r == switch_to_parent(branch)
           l1 == Logged(log, Pushed(branch, has_pr))
           l2 == IF has_pr THEN l1 ELSE Logged(l1, Created(branch, RequestBase(branch)))
           stop(kind, l, rs) ==
               /\ pc' = "aborted"
               /\ head' = head
               /\ log' = l
               /\ requests' = rs
               /\ last' = Seen("create_prs", branch, NoBranch, kind, NoPR, "", FALSE, "none")
       IN  /\ has_pr => fails # "create"
           /\ IF ~has_pr /\ branch \notin DOMAIN gitstack
              THEN fails = "none" /\ stop("key_error", log, requests)
              ELSE IF fails = "push"
              THEN stop("push_failed", log, requests)
              ELSE IF fails = "create"
              THEN stop("create_failed", l1, requests)
              ELSE IF r.raised
              THEN stop("switch_failed", l2, requests \cup {branch})
              ELSE /\ pc' = "prs"
                   /\ head' = r.branch
                   /\ log' = l2
                   /\ requests' = requests \cup {branch}
                   /\ last' = Seen("create_prs", branch, r.branch, r.kind, NoPR, "", FALSE,
                                   "none")
    /\ UNCHANGED <<branches, file, op, gitstack, gitstack_children, stack_changed, trunk,
                   original_branch, visited, tracking_stack, loaded, writes, calls, issued,
                   noted, invocations, picked>>

\* An iteration in which every command the program runs does what it is for.
CreatePrsAdvance == CreatePrsStep("none")

\* An iteration in which the push or the creation fails.
CreatePrsFail == \E fails \in Failures \ {"none"} : CreatePrsStep(fails)

\* The loop has arrived at the trunk: `git switch original_branch`.
CreatePrsFinish ==
    /\ pc = "prs"
    /\ head = trunk
    /\ pc' = "wrapup"
    /\ head' = original_branch
    /\ UNCHANGED <<branches, file, op, gitstack, gitstack_children, stack_changed, trunk,
                   original_branch, visited, tracking_stack, loaded, writes, calls, issued,
                   last, noted, invocations, picked, log, requests>>

NextPrs ==
    \/ \E rs \in SUBSET Names : CreatePrs(rs)
    \/ CreatePrsAdvance
    \/ CreatePrsFail
    \/ CreatePrsFinish
    \/ Wrapup

\* create_prs over any registry.  The program keeps running its loop; nothing
\* obliges a push or a creation to fail.
SpecPrs ==
    /\ InitAny
    /\ [][NextPrs]_vars
    /\ WF_vars(CreatePrsAdvance)
    /\ WF_vars(CreatePrsFinish)
    /\ WF_vars(Wrapup)

(***************************************************************************)
(* Notions the properties use                                              *)
(***************************************************************************)
\* The branches reachable from the set S through the children map c.
RECURSIVE Reach(_, _)
Reach(c, S) ==
    LET N == S \cup UNION {c[p] : p \in S \cap DOMAIN c}
    IN  IF N = S THEN S ELSE Reach(c, N)

\* Following parent pointers from k arrives at t within n hops.
RECURSIVE Arrives(_, _, _, _)
Arrives(g, t, k, n) ==
    IF k = t THEN TRUE
    ELSE IF n = 0 \/ k \notin DOMAIN g THEN FALSE
    ELSE Arrives(g, t, g[k], n - 1)

ReachesTrunk(g, t, k) == Arrives(g, t, g[k], Cardinality(Names))

\* The process has been constructed and has not ended.
Running == pc \in {"ready", "traverse", "wrapup", "done"}

\* This step is a call of the sync visitor.
CheckStep == pc = "traverse" /\ op = "sync" /\ calls' # calls

(***************************************************************************)
(* Properties                                                              *)
(***************************************************************************)
\* The branches the registry g maps to branch.
ChildrenIn(g, branch) == {k \in DOMAIN g : g[k] = branch}

\* C1: for every registry whose children map is its inverse and every tracked
\* branch b, after _untrack_branch(b) every former child of b maps to b's
\* former parent, b is no key of the registry, b is in no children set, b has
\* no children entry, and the dirty flag is set.  (SpecUntrack: loaded is the
\* registry before the call, last.branch is b.)
C1_UntrackRemovesAndGrafts ==
    (op = "untrack" /\ pc = "wrapup") =>
        LET b == last.branch
        IN  /\ \A k \in ChildrenIn(loaded, b) : k \in DOMAIN gitstack /\ gitstack[k] = loaded[b]
            /\ b \notin DOMAIN gitstack
            /\ \A p \in DOMAIN gitstack_children : b \notin gitstack_children[p]
            /\ b \notin DOMAIN gitstack_children
            /\ stack_changed

\* C2: when a sync pass is over, _check_and_rebase has been applied exactly
\* once to every non-trunk branch that was tracked and reachable from the trunk
\* when the pass began, the descendants of a branch untracked during the pass
\* included.
C2_EveryReachableBranchChecked ==
    (op = "sync" /\ pc \in {"wrapup", "done"}) =>
        \A b \in Reach(BuildChildren(loaded), {trunk}) \ {trunk} : calls[b] = 1

\* C3: a branch that exists, is not merged or closed and has diverged from its
\* parent is rebased if and only if it has no request or a draft one, and has
\* its parent merged into it if and only if it has an open request that is no
\* draft; the command is issued, and no visit of a branch with an open request
\* that is no draft issues a rebase.
C3_RebaseUnlessOpenRequest ==
    last.fn = "check" =>
        /\ last.kind = "diverged" =>
              /\ last.cmd \in {"rebase", "rebase_i"} <=> (last.pr = NoPR \/ last.pr.isDraft)
              /\ last.cmd = "merge" <=> (last.pr.state = "OPEN" /\ ~last.pr.isDraft)
              /\ <<last.cmd, last.branch>> \in issued
        /\ (last.pr.state = "OPEN" /\ ~last.pr.isDraft) => last.cmd \notin {"rebase", "rebase_i"}

\* C3: a diverged branch with an open request that is no draft got a merge.
C3_Witness ==
    /\ last.fn = "check"
    /\ last.kind = "diverged"
    /\ last.pr = [state |-> "OPEN", isDraft |-> FALSE]
    /\ <<"merge", last.branch>> \in issued

\* C4: a visit that finds the request MERGED or CLOSED deletes the branch and
\* untracks it, its children grafted onto its former parent, when the operator
\* confirms with the empty input, Y or y; it leaves the repository's branches,
\* the registry and the children map as they were when the operator declines;
\* and it issues no rebase and no merge either way.
C4_MergedOrClosed ==
    [][(CheckStep /\ last'.pr.state \in {"MERGED", "CLOSED"}) =>
          LET b == last'.branch
          IN  /\ b \in branches
              /\ b \in DOMAIN gitstack
              /\ issued' = issued
              /\ IF last'.response \in {"", "Y", "y"}
                 THEN /\ branches' = branches \ {b}
                      /\ DOMAIN gitstack' = DOMAIN gitstack \ {b}
                      /\ \A k \in DOMAIN gitstack' :
                            gitstack'[k] = IF gitstack[k] = b THEN gitstack[b] ELSE gitstack[k]
                 ELSE /\ branches' = branches
                      /\ gitstack' = gitstack
                      /\ gitstack_children' = gitstack_children
                      /\ stack_changed' = stack_changed]_vars

\* C4: a merged or closed branch with a child was removed on the empty input,
\* and the child now maps to the branch's former parent.
C4_Witness ==
    /\ last.fn = "check"
    /\ last.kind = "removed"
    /\ last.response = ""
    /\ last.branch \notin branches
    /\ \E k \in DOMAIN gitstack :
          /\ k \in DOMAIN loaded
          /\ loaded[k] = last.branch
          /\ gitstack[k] = last.parent

\* C5: as long as every branch a sync pass has visited exists, has no request
\* or an open one and is up to date with its parent, the pass has issued no
\* rebase and no merge, the registry and the children map are as loaded, the
\* dirty flag is false and the registry file has not been written.
C5_CleanPassChangesNothing ==
    (op = "sync" /\ noted = {}) =>
        /\ issued = {}
        /\ gitstack = loaded
        /\ gitstack_children = BuildChildren(loaded)
        /\ ~stack_changed
        /\ writes = 0
        /\ file = loaded

\* C5: a finished pass over two tracked branches, one on the other, found both
\* up to date.
C5_Witness ==
    /\ op = "sync"
    /\ pc = "done"
    /\ noted = {}
    /\ \E x \in DOMAIN gitstack, y \in DOMAIN gitstack :
          /\ gitstack[y] = x
          /\ gitstack[x] = trunk
          /\ calls[x] = 1
          /\ calls[y] = 1

\* C6 as stated: the registry file is written at most once, not before the
\* operation is over, if and only if the registry differs from the mapping
\* loaded at process start, and then it holds the registry.
C6_WrittenIffRegistryDiffers ==
    /\ writes <= 1
    /\ pc \in {"ready", "traverse", "wrapup"} => writes = 0
    /\ pc = "done" =>
          /\ writes = 1 <=> gitstack # loaded
          /\ writes = 1 => file = gitstack

\* C6 amended: the registry file is written at most once, not before the
\* operation is over, if and only if the dirty flag is set, which every track
\* and untrack does; it is written whenever the registry differs from the
\* mapping loaded at process start, and then it holds the registry; it is
\* left as loaded when it is not written.
C6_WrittenIffDirty ==
    /\ writes <= 1
    /\ pc \in {"ready", "traverse", "wrapup"} => (writes = 0 /\ file = loaded)
    /\ pc = "done" =>
          /\ writes = 1 <=> stack_changed
          /\ gitstack # loaded => writes = 1
          /\ writes = 1 => file = gitstack
          /\ writes = 0 => file = loaded

\* C6: an invocation wrote a registry that differs from the loaded one.
C6_Witness ==
    /\ pc = "done"
    /\ writes = 1
    /\ gitstack # loaded
    /\ file = gitstack

\* C7: with a visitor that changes nothing, _traverse_stack calls the visitor
\* at most once per branch and only on branches reachable from the trunk
\* through the children map, has called it exactly once on each of them when
\* it is over, and does not run forever, whatever the registry holds.
C7_TraverseVisitsReachableOnce ==
    /\ [](op = "print" =>
            \A b \in Names :
                /\ calls[b] <= 1
                /\ calls[b] = 1 => b \in Reach(gitstack_children, {trunk}))
    /\ []((op = "print" /\ pc = "wrapup") =>
            \A b \in Reach(gitstack_children, {trunk}) : calls[b] = 1)
    /\ (pc = "traverse") ~> (pc # "traverse")

\* C7: a traversal is over in a registry that has the trunk as a key on a
\* cycle through two more branches, and a self-parent entry out of reach.
C7_Witness ==
    /\ op = "print"
    /\ pc = "wrapup"
    /\ trunk \in DOMAIN gitstack
    /\ Cardinality(Reach(gitstack_children, {trunk})) >= 3
    /\ \E b \in DOMAIN gitstack :
          /\ gitstack[b] = b
          /\ calls[b] = 0

\* C8: after any sequence of create-branch, attach and sync invocations that
\* begins with no registry, following the parent pointers from any key of the
\* registry arrives at the trunk.
C8_EveryChainReachesTrunk ==
    pc = "done" => \A k \in DOMAIN gitstack : ReachesTrunk(gitstack, trunk, k)

\* C9: in every invocation of such a sequence no entry of the registry maps a
\* branch to itself and the trunk of the invocation is no key of the registry.
C9_NoSelfParentNoTrunkKey ==
    Running =>
        /\ \A k \in DOMAIN gitstack : gitstack[k] # k
        /\ trunk \notin DOMAIN gitstack

\* C10: track_current_branch(parent) issues no command that changes history
\* or the repository; it leaves the registry, the children map and the dirty
\* flag alone, and asks nothing, when the parent is no branch, is the current
\* branch, when the current branch is the trunk or already maps to the parent;
\* and it changes the entry of a tracked branch only after the operator was
\* asked and answered y or Y.
C10_TrackCurrentBranchGuards ==
    [][(pc = "ready" /\ op' = "track") =>
          LET p == last'.parent
              b == original_branch
          IN  /\ last'.branch = b
              /\ issued' = issued
              /\ branches' = branches
              /\ head' = head
              /\ (\/ p \notin branches
                  \/ p = b
                  \/ b = trunk
                  \/ (b \in DOMAIN gitstack /\ gitstack[b] = p)) =>
                    /\ gitstack' = gitstack
                    /\ gitstack_children' = gitstack_children
                    /\ stack_changed' = stack_changed
                    /\ ~last'.prompted
              /\ (b \in DOMAIN gitstack /\ gitstack' # gitstack) =>
                    /\ last'.prompted
                    /\ last'.response \in {"y", "Y"}]_vars

\* C10: a tracked branch was given another parent after the operator's y.
C10_Witness ==
    /\ op = "track"
    /\ last.kind = "tracked"
    /\ last.prompted
    /\ last.response = "y"
    /\ last.branch \in DOMAIN loaded
    /\ loaded[last.branch] # last.parent
    /\ gitstack[last.branch] = last.parent

\* C11: a sync visit in which the remote service answers a state other than
\* none, OPEN, MERGED and CLOSED ends the invocation with a fatal error, and
\* no rebase, merge, deletion or untracking is done for the branch.
\* (SpecAnyState: last is the visit just made.)
C11_UnknownStateIsFatal ==
    (last.fn = "check" /\ last.pr \in UnknownPRStates) =>
        /\ pc = "aborted"
        /\ last.cmd = "none"
        /\ last.branch \in branches
        /\ last.branch \in DOMAIN loaded => last.branch \in DOMAIN gitstack

\* C12: an invocation whose operation token is outside the vocabulary, or
\* whose argument count violates the operation's arity, ends in an error
\* (non-zero exit status) and has changed neither the registry, nor the
\* registry file, nor the repository.
C12_BadCommandLineIsAnError ==
    last.fn = "operate" =>
        /\ pc = "aborted"
        /\ gitstack = loaded
        /\ file = loaded
        /\ writes = 0
        /\ issued = {}
        /\ head = original_branch
        /\ branches = Names

\* C13: when switch_to_child lists n >= 2 children and the operator types the
\* integer i, a switch is made only when 0 <= i < n, and then to the i-th
\* child listed; for every i outside 0..n-1, the negative ones included, an
\* error is reported and the checked-out branch stays what it was.
C13_ChildIndexWithinBounds ==
    (last.fn = "switch_to_child" /\ Len(picked.listed) >= 2) =>
        LET n == Len(picked.listed)
            i == picked.index
        IN  /\ last.kind = "switched" => i \in 0..(n - 1) /\ head = picked.listed[i + 1]
            /\ i \notin 0..(n - 1) => pc = "aborted" /\ head = original_branch

\* C14: when the sync visitor is called on a branch other than the trunk that
\* is no local branch, the branch is untracked with its children grafted onto
\* its parent, and nothing else is done for it: no switch, no query of the
\* remote service, no prompt, no deletion, no rebase and no merge; the pass
\* goes on.
C14_GoneBranchOnlyUntracked ==
    [][(CheckStep /\ last'.branch # trunk /\ last'.branch \notin branches) =>
        LET b == last'.branch
        IN  /\ last'.kind = "gone"
            /\ b \notin DOMAIN gitstack'
            /\ \A k \in Get(gitstack_children, b, {}) :
                   k \in DOMAIN gitstack' /\ gitstack'[k] = gitstack[b]
            /\ b \notin DOMAIN gitstack_children'
            /\ stack_changed'
            /\ head' = head
            /\ branches' = branches
            /\ issued' = issued
            /\ last'.pr = NoPR
            /\ ~last'.prompted
            /\ last'.cmd = "none"
            /\ pc' = "traverse"]_vars

\* A sync pass has untracked a gone branch that had a child, and the child
\* now has the gone branch's parent.
C14_Witness ==
    /\ op = "sync"
    /\ last.fn = "check"
    /\ last.kind = "gone"
    /\ \E k \in DOMAIN gitstack :
          /\ k \in DOMAIN loaded
          /\ loaded[k] = last.branch
          /\ gitstack[k] = loaded[last.branch]

\* The branches from k up to the trunk t, t left out, along the registry g;
\* n bounds the hops.
RECURSIVE PathToTrunk(_, _, _, _)
PathToTrunk(g, t, k, n) ==
    IF k = t \/ n = 0 \/ k \notin DOMAIN g THEN << >>
    ELSE <<k>> \o PathToTrunk(g, t, g[k], n - 1)

\* The branches pushed, in the order of the pushes.
RECURSIVE Pushes(_)
Pushes(l) ==
    IF l = << >> THEN << >>
    ELSE IF Head(l).cmd = "push" THEN <<Head(l).branch>> \o Pushes(Tail(l))
    ELSE Pushes(Tail(l))

IsPrefix(s, t) == Len(s) <= Len(t) /\ s = SubSeq(t, 1, Len(s))

\* C15: when the parent chain of the current branch reaches the trunk,
\* create_prs pushes the branches of the path from the current branch up to
\* the trunk, the trunk left out, each once and child before parent; it
\* creates a request only right after the push of a branch that had none, and
\* on the branch's tracked parent; it never changes the registry; and when it
\* returns the original branch is checked out and every branch of the path
\* has been pushed.
C15_CreatePrsWalksThePath ==
    (op = "pr" /\ Arrives(loaded, trunk, original_branch, Cardinality(Names))) =>
        LET path == PathToTrunk(loaded, trunk, original_branch, Cardinality(Names))
        IN  /\ gitstack = loaded
            /\ file = loaded
            /\ ~stack_changed
            /\ IsPrefix(Pushes(log), path)
            /\ \A i \in DOMAIN log :
                   log[i].cmd = "create" =>
                       /\ i > 1
                       /\ log[i - 1] = Pushed(log[i].branch, FALSE)
                       /\ log[i].base = loaded[log[i].branch]
            /\ pc \in {"wrapup", "done"} =>
                   /\ Pushes(log) = path
                   /\ head = original_branch
                   /\ \A i \in DOMAIN log :
                          log[i] = Pushed(log[i].branch, FALSE) =>
                              /\ i < Len(log)
                              /\ log[i + 1].cmd = "create"

\* create_prs has returned after walking two branches, one that had a request
\* and one for which it created a request on a parent other than the trunk.
C15_Witness ==
    /\ op = "pr"
    /\ pc = "wrapup"
    /\ head # trunk
    /\ \E i \in DOMAIN log : log[i].cmd = "create" /\ log[i].base # trunk
    /\ \E i \in DOMAIN log : log[i].cmd = "push" /\ log[i].had_pr

\* No branch of the registry g is its own ancestor.
Acyclic(g) == \A k \in DOMAIN g : ~Arrives(g, k, g[k], Cardinality(Names))

\* C19: for every registry without a cycle and every starting branch, tracked
\* or not, with or without a request, create_prs once entered comes to an
\* end: it returns or it fails.
C19_CreatePrsTerminates == (pc = "prs" /\ Acyclic(loaded)) ~> (pc # "prs")

\* C16: when a sync pass has come to its end without a fatal error, the
\* branch checked out is the one that was checked out when the invocation
\* started, provided it is still a local branch.
C16_SyncRestoresOriginalBranch ==
    (op = "sync" /\ pc \in {"wrapup", "done"} /\ original_branch \in branches) =>
        head = original_branch

\* A pass that ended by deleting a branch, which leaves the trunk checked
\* out, has returned to an original branch that is not the trunk.
C16_Witness ==
    /\ op = "sync"
    /\ pc = "wrapup"
    /\ last.kind = "removed"
    /\ original_branch # trunk
    /\ original_branch \in branches
    /\ head = original_branch

\* The number of hops from k up to t along the registry g, at most n.
RECURSIVE Hops(_, _, _, _)
Hops(g, t, k, n) ==
    IF k = t \/ n = 0 \/ k \notin DOMAIN g THEN 0
    ELSE 1 + Hops(g, t, g[k], n - 1)

\* This step is a call of the visitor, of sync or of print_stack.
VisitStep == pc = "traverse" /\ calls' # calls

\* C17: in a traversal, of print_stack or of sync, the trunk is visited at
\* depth 0, and every other branch is visited when its tracked parent has
\* been visited, at a depth that is its number of hops below the trunk, in the
\* registry as it is then and as it was loaded: one more than its parent's.
C17_ParentFirstDepthIsHops ==
    [][VisitStep =>
        LET top == tracking_stack[Len(tracking_stack)]
            branch == top[1]
            depth == top[2]
            n == Cardinality(Names)
        IN  IF branch = trunk
            THEN depth = 0
            ELSE /\ branch \in DOMAIN gitstack
                 /\ gitstack[branch] \in visited
                 /\ Arrives(gitstack, trunk, branch, n)
                 /\ depth = Hops(gitstack, trunk, branch, n)
                 /\ depth = Hops(loaded, trunk, branch, n)
                 /\ depth = 1 + Hops(gitstack, trunk, gitstack[branch], n)]_vars

\* A sync pass has visited a branch two hops below the trunk, after its
\* parent.
C17_Witness ==
    /\ op = "sync"
    /\ pc = "traverse"
    /\ last.fn = "check"
    /\ last.kind = "uptodate"
    /\ last.parent \notin {trunk, NoBranch}
    /\ calls[last.parent] = 1
    /\ calls[last.branch] = 1

\* C18: in a constructed process, after construction and after every track,
\* re-track and untrack, the children map is the exact inverse of the
\* registry: k is in the children set of p exactly when the registry maps k
\* to p.
C18_ChildrenMapIsInverse ==
    Running =>
        \A p \in Names, k \in Names :
            k \in Get(gitstack_children, p, {}) <=> (k \in DOMAIN gitstack /\ gitstack[k] = p)

\* C20: an invocation that is ended by a failing external command never
\* writes the registry file: when it is aborted the file holds the mapping the
\* process loaded, nothing has been written, and the aborted process changes
\* the file no more.
C20_AbortLeavesFileAsLoaded ==
    [][/\ pc' = "aborted" => (file' = loaded' /\ writes' = 0)
       /\ pc = "aborted" => file' = file]_vars

\* A sync pass is aborted by a failing rebase or merge after it has untracked
\* a branch: the registry in memory differs from the file and is dirty.
C20_Witness ==
    /\ pc = "aborted"
    /\ op = "sync"
    /\ last.cmd # "none"
    /\ stack_changed
    /\ gitstack # file
    /\ file = loaded

====
